---- MODULE Spec2Model ----
(***************************************************************************)
(* The active-game page of the board-game front end                        *)
(* (src/frontend/app/activeGame.js): the handlers registered on the        *)
(* server-push event source, the ownership map they maintain and the       *)
(* interval-timer animation of the player tokens.                          *)
(*                                                                         *)
(* JavaScript runs every handler and every timer callback to completion,   *)
(* so each handler is one action.                                          *)
(***************************************************************************)
EXTENDS Integers, Sequences, FiniteSets

----------------------------------------------------------------------------
(* Program constants *)

\* the board has cells 0..39: animate() wraps with "> 39" and "-= 40"
LastCell == 39
NumCells == 40
\* the value animate() and movePlayer() use for the jail
JailSentinel == 99
\* the position value -1 of a playerMove event: new = sent to jail, old = leaving jail
JailSignal == -1
\* the cell a token leaving jail is put on
JailExitCell == 9
\* JavaScript null, the value of an unowned property
null == "null"
\* the initial value '' of currentPlayer
NoPlayer == ""
\* the initial value '' of timer, which is no interval handle
NoTimer == 0

Cells == 0..LastCell

EventNames == {"playerMove", "playerTurn", "playerBalance", "playerJailed",
               "propertyOwnerChanges", "houseEvent", "gameEnd"}

----------------------------------------------------------------------------
(* Bounds and the inputs drawn from them *)

\* move events target the cells at most this far from cell 0, either way round
TargetSpread == 2
\* at most this many interval timers are armed at once
MaxArmed == 2
\* an ownership-change event carries at most this many transfers
MaxChanges == 2

\* the player lists and property-position lists a session is started with
PlayerLists == {<<"1", "2">>}
PropertyLists == {<<1, 3, 6>>}
Players == {"1", "2"}

\* newPosition of a playerMove event
MoveTargets == {c \in Cells : c <= TargetSpread \/ c >= NumCells - TargetSpread}
                 \cup {JailSignal}
\* oldPosition of a playerMove event: only its being -1 is looked at
OldPositions == {JailSignal, 0}

\* one transfer of a propertyOwnerChanges event: tracked position 3 or
\* untracked position 5; the new owner is player 1 or null
Transfers == [position : {3, 5}, newOwner : {"1", null}]
ChangeLists == UNION {[1..n -> Transfers] : n \in 1..MaxChanges}

\* houseEvent payloads: position -> houses and hotels
HousePayloads == {[q \in {3} |-> [houses |-> 1, hotels |-> 0]]}

----------------------------------------------------------------------------
(* State *)

VARIABLES
    playerPositions,   \* player -> [current, end]
    timer,             \* the handle of the last setInterval
    currentPlayer,     \* the animating player, or ''
    propertyOwners,    \* position -> owner or null
    currentHouses,     \* position -> houses
    currentHotels,     \* position -> hotels
    armed,             \* the browser's armed interval handles
    listeners,         \* the event names with a handler on the event source
    ended,             \* the session's gameEnd event has been handled
    last,              \* the handler or callback that ran last, with what it was given and did
    anim,              \* the last move event: its start, target and ticks so far, or
                       \* the player and target of the animation it found running
    lastChange         \* position -> newOwner of the last transfer delivered for it

progVars == <<playerPositions, timer, currentPlayer, propertyOwners,
              currentHouses, currentHotels, armed, listeners>>
vars == <<playerPositions, timer, currentPlayer, propertyOwners,
          currentHouses, currentHotels, armed, listeners, ended, last, anim, lastChange>>

Range(s) == {s[i] : i \in DOMAIN s}

\* f with the keys of g set to g's values: assignment to object properties
Assign(f, g) ==
    [k \in DOMAIN f \cup DOMAIN g |-> IF k \in DOMAIN g THEN g[k] ELSE f[k]]

Empty == [k \in {} |-> 0]

NoAnim == [player |-> NoPlayer, from |-> 0, to |-> 0, ticks |-> 0]

Init ==
    /\ playerPositions = Empty
    /\ timer = NoTimer
    /\ currentPlayer = NoPlayer
    /\ propertyOwners = Empty
    /\ currentHouses = Empty
    /\ currentHotels = Empty
    /\ armed = {}
    /\ listeners = {}
    /\ ended = FALSE
    /\ last = [kind |-> "load"]
    /\ anim = NoAnim
    /\ lastChange = Empty

----------------------------------------------------------------------------
(* Session start *)

\* displayBoard: one entry {current: 0, end: 0} per player of the list
displayBoard(playerList) ==
    Assign(playerPositions, [p \in Range(playerList) |-> [current |-> 0, end |-> 0]])

enableActiveGameListeners == listeners \cup EventNames

\* activeGame, with the callback that registers the listeners. It runs when
\* the first game of the page starts and again when, after a game has ended,
\* the user returns to the menu and the next game starts.
activeGame(playerList, propertyPositions) ==
    /\ last.kind = "load" \/ ended
    /\ propertyOwners' = Assign(propertyOwners,
                                [q \in Range(propertyPositions) |-> null])
    /\ playerPositions' = displayBoard(playerList)
    /\ listeners' = enableActiveGameListeners
    /\ ended' = FALSE
    /\ last' = [kind |-> "activeGame",
                players |-> Range(playerList),
                positions |-> Range(propertyPositions),
                render |-> {<<p, 0>> : p \in Range(playerList)}]
    /\ UNCHANGED <<timer, currentPlayer, currentHouses, currentHotels, armed>>

----------------------------------------------------------------------------
(* The token animator *)

\* setInterval returns a handle that is not armed. Handles are opaque and the
\* program keeps only the last one, so the least free handle stands for it.
setInterval ==
    CHOOSE h \in 1..MaxArmed :
        h \notin armed /\ \A k \in 1..MaxArmed : k \notin armed => h <= k

\* clearInterval(h): disarms h if it is armed, otherwise does nothing
clearInterval(h) == armed \ {h}

\* EndPosition keeping the target of an animation that is still running
EndPositionFirstWins(newPosition) ==
    IF currentPlayer \in DOMAIN playerPositions
    THEN playerPositions[currentPlayer].end
    ELSE IF newPosition = JailSignal THEN JailSentinel ELSE newPosition

\* parseInt(endPosition, 10) of onPlayerMove: 99 stands for the jail signal
EndPosition(newPosition) ==
    IF newPosition = JailSignal THEN JailSentinel ELSE newPosition

\* StartPosition without the test for the jail-departure signal
StartPositionKeepsCurrent(player, oldPosition) ==
    playerPositions[player].current

\* the position the handler leaves in .current before the animation starts
StartPosition(player, oldPosition) ==
    IF oldPosition = JailSignal THEN JailExitCell
    ELSE playerPositions[player].current

\* BuyOffered without the test that the position is unowned
BuyOfferedOnAnyKey(playerID, newPosition, user) ==
    /\ playerID = user
    /\ newPosition \in DOMAIN propertyOwners

\* the condition under which onPlayerMove calls enableBuyPropertyButton
BuyOffered(playerID, newPosition, user) ==
    /\ playerID = user
    /\ newPosition \in DOMAIN propertyOwners
    /\ propertyOwners[newPosition] = null

\* onPlayerMove leaving the animating player as it is while an animation runs
onPlayerMoveKeepsAnimating(player, newPosition, oldPosition, user) ==
    /\ "playerMove" \in listeners
    /\ player \in DOMAIN playerPositions
    /\ Cardinality(armed) < MaxArmed
    /\ currentPlayer' = IF currentPlayer = NoPlayer THEN player ELSE currentPlayer
    /\ playerPositions' = [playerPositions EXCEPT
                             ![player] = [current |-> StartPosition(player, oldPosition),
                                          end |-> EndPosition(newPosition)]]
    /\ timer' = setInterval
    /\ armed' = armed \cup {setInterval}
    /\ last' = [kind |-> "playerMove", player |-> player,
                new |-> newPosition, old |-> oldPosition, user |-> user,
                buy |-> BuyOffered(player, newPosition, user)]
    /\ UNCHANGED <<propertyOwners, currentHouses, currentHotels, listeners, ended>>

\* onPlayerMove for the first tuple [player, newPosition, oldPosition, jailed]
\* of the event, with the user id the cookie holds
onPlayerMove(player, newPosition, oldPosition, user) ==
    /\ "playerMove" \in listeners
    /\ player \in DOMAIN playerPositions
    /\ Cardinality(armed) < MaxArmed
    /\ currentPlayer' = player
    /\ playerPositions' = [playerPositions EXCEPT
                             ![player] = [current |-> StartPosition(player, oldPosition),
                                          end |-> EndPosition(newPosition)]]
    /\ timer' = setInterval
    /\ armed' = armed \cup {setInterval}
    /\ last' = [kind |-> "playerMove", player |-> player,
                new |-> newPosition, old |-> oldPosition, user |-> user,
                buy |-> BuyOffered(player, newPosition, user)]
    /\ UNCHANGED <<propertyOwners, currentHouses, currentHotels, listeners, ended>>

\* the cell after c, going round the board
NextPosition(c) == IF c + 1 > LastCell THEN c + 1 - NumCells ELSE c + 1

\* animate, the branch for a target other than the jail sentinel
StepTick(p) ==
    LET nextPosition == NextPosition(playerPositions[p].current)
        reached == nextPosition = playerPositions[p].end
    IN  /\ playerPositions' = [playerPositions EXCEPT ![p].current = nextPosition]
        /\ armed' = IF reached THEN clearInterval(timer) ELSE armed
        /\ currentPlayer' = IF reached THEN NoPlayer ELSE currentPlayer
        /\ last' = [kind |-> "animate", afterMove |-> last.kind = "playerMove", player |-> p,
                    render |-> {<<p, nextPosition>>}]

\* JailTick without the clearInterval call
JailTickKeepsTimer(p) ==
    /\ playerPositions' = [playerPositions EXCEPT ![p].current = JailSentinel]
    /\ armed' = armed
    /\ currentPlayer' = NoPlayer
    /\ last' = [kind |-> "animate", afterMove |-> last.kind = "playerMove", player |-> p,
                render |-> {<<p, JailSentinel>>}]

\* animate, the go-to-jail branch
JailTick(p) ==
    /\ playerPositions' = [playerPositions EXCEPT ![p].current = JailSentinel]
    /\ armed' = clearInterval(timer)
    /\ currentPlayer' = NoPlayer
    /\ last' = [kind |-> "animate", afterMove |-> last.kind = "playerMove", player |-> p,
                render |-> {<<p, JailSentinel>>}]

\* animate, called by an armed interval timer. With currentPlayer '' the
\* first line reads a property of undefined and throws: nothing changes and
\* the timer stays armed.
animate ==
    /\ armed # {}
    /\ IF currentPlayer \notin DOMAIN playerPositions
       THEN /\ last' = [kind |-> "animateThrows"]
            /\ UNCHANGED <<playerPositions, armed, currentPlayer>>
       ELSE IF playerPositions[currentPlayer].end # JailSentinel
            THEN StepTick(currentPlayer)
            ELSE JailTick(currentPlayer)
    /\ UNCHANGED <<timer, propertyOwners, currentHouses, currentHotels, listeners, ended>>

----------------------------------------------------------------------------
(* The event handlers of the dispatcher *)

\* onPlayerTurn taking the player whose turn it is for the animating player
onPlayerTurnSetsCurrentPlayer ==
    /\ "playerTurn" \in listeners
    /\ \E p \in DOMAIN playerPositions : currentPlayer' = p
    /\ last' = [kind |-> "playerTurn"]
    /\ UNCHANGED <<playerPositions, timer, propertyOwners, currentHouses,
                   currentHotels, armed, listeners, ended>>

\* onPlayerTurn, onPlayerBalance, onPlayerJailed: they pass the event to the
\* user-details pane and the game log and touch no state of this module
onPlayerTurn ==
    /\ "playerTurn" \in listeners
    /\ last' = [kind |-> "playerTurn"]
    /\ UNCHANGED <<progVars, ended>>

onPlayerBalance ==
    /\ "playerBalance" \in listeners
    /\ last' = [kind |-> "playerBalance"]
    /\ UNCHANGED <<progVars, ended>>

onPlayerJailed ==
    /\ "playerJailed" \in listeners
    /\ last' = [kind |-> "playerJailed"]
    /\ UNCHANGED <<progVars, ended>>

\* the assignment onPropertyOwnerChanges makes to the ownership map
ApplyChanges(changes) ==
    Assign(propertyOwners,
           [q \in {changes[1].position} |-> changes[1].newOwner])

\* onPropertyOwnerChanges for a payload of one or more transfers
onPropertyOwnerChanges(changes) ==
    /\ "propertyOwnerChanges" \in listeners
    /\ propertyOwners' = ApplyChanges(changes)
    /\ last' = [kind |-> "propertyOwnerChanges",
                changes |-> changes]
    /\ UNCHANGED <<playerPositions, timer, currentPlayer, currentHouses,
                   currentHotels, armed, listeners, ended>>

\* onHouseEvent for a payload position -> {houses, hotels}
onHouseEvent(houses) ==
    /\ "houseEvent" \in listeners
    /\ currentHouses' = Assign(currentHouses,
                               [k \in DOMAIN houses |-> houses[k].houses])
    /\ currentHotels' = Assign(currentHotels,
                               [k \in DOMAIN houses |-> houses[k].hotels])
    /\ last' = [kind |-> "houseEvent"]
    /\ UNCHANGED <<playerPositions, timer, currentPlayer, propertyOwners,
                   armed, listeners, ended>>

\* the names disableActiveGameListeners removes
disableActiveGameListeners ==
    listeners \ {"playerMove", "playerTurn", "playerBalance",
                 "propertyOwnerChanges", "houseEvent", "gameEnd"}

\* onGameEnd cancelling the animation as well
onGameEndStopsTimer ==
    /\ "gameEnd" \in listeners
    /\ listeners' = disableActiveGameListeners
    /\ ended' = TRUE
    /\ armed' = clearInterval(timer)
    /\ currentPlayer' = NoPlayer
    /\ last' = [kind |-> "gameEnd"]
    /\ UNCHANGED <<playerPositions, timer, propertyOwners,
                   currentHouses, currentHotels>>

\* onGameEnd: removes the listeners, then shows the game-over page
onGameEnd ==
    /\ "gameEnd" \in listeners
    /\ listeners' = disableActiveGameListeners
    /\ ended' = TRUE
    /\ last' = [kind |-> "gameEnd"]
    /\ UNCHANGED <<playerPositions, timer, currentPlayer, propertyOwners,
                   currentHouses, currentHotels, armed>>

----------------------------------------------------------------------------
(* Spec, the animator: a session, move events and timer ticks in any order *)

\* the user id of the cookie while the animator is looked at
AnimUser == "1"

AnimStart ==
    /\ \E pl \in PlayerLists, pp \in PropertyLists : activeGame(pl, pp)
    /\ UNCHANGED <<anim, lastChange>>

AnimMove ==
    /\ \E p \in Players, n \in MoveTargets, o \in OldPositions :
          onPlayerMove(p, n, o, AnimUser)
    /\ UNCHANGED <<anim, lastChange>>

AnimTick ==
    /\ animate
    /\ UNCHANGED <<anim, lastChange>>

Next == AnimStart \/ AnimMove \/ AnimTick

Spec == Init /\ [][Next]_vars

----------------------------------------------------------------------------
(* SpecLap, the animator with the ticks of each move counted *)

LapStart ==
    /\ \E pl \in PlayerLists, pp \in PropertyLists : activeGame(pl, pp)
    /\ UNCHANGED <<anim, lastChange>>

LapMove ==
    /\ \E p \in Players, n \in MoveTargets, o \in OldPositions :
          /\ onPlayerMove(p, n, o, AnimUser)
          /\ anim' = [player |-> p, from |-> playerPositions'[p].current,
                      to |-> playerPositions'[p].end, ticks |-> 0]
    /\ UNCHANGED lastChange

LapTick ==
    /\ animate
    /\ anim' = IF last'.kind = "animate"
               THEN [anim EXCEPT !.ticks = @ + 1] ELSE anim
    /\ UNCHANGED lastChange

NextLap == LapStart \/ LapMove \/ LapTick

SpecLap == Init /\ [][NextLap]_vars

----------------------------------------------------------------------------
(* SpecOver, the animator with the animation each move event found running *)

\* new positions of the move events: two cells ahead of the start cell, one
\* behind it, and the jail signal
OverTargets == {1, 2, 38, JailSignal}

OverStart ==
    /\ \E pl \in PlayerLists, pp \in PropertyLists : activeGame(pl, pp)
    /\ UNCHANGED <<anim, lastChange>>

OverMove ==
    /\ \E p \in Players, n \in OverTargets, o \in OldPositions :
          /\ onPlayerMove(p, n, o, AnimUser)
          /\ anim' = [player |-> p, new |-> n, over |-> currentPlayer,
                      overEnd |-> IF currentPlayer \in DOMAIN playerPositions
                                  THEN playerPositions[currentPlayer].end ELSE 0]
    /\ UNCHANGED lastChange

OverTick ==
    /\ animate
    /\ UNCHANGED <<anim, lastChange>>

NextOver == OverStart \/ OverMove \/ OverTick

SpecOver == Init /\ [][NextOver]_vars

----------------------------------------------------------------------------
(* SpecDispatch, the dispatcher: the events of a session in any delivery   *)
(* order, handled before the animation timer next fires                    *)

\* lastChange after the transfers of one payload, in payload order
RECURSIVE Delivered(_, _)
Delivered(lc, changes) ==
    IF changes = <<>> THEN lc
    ELSE Delivered(Assign(lc, [q \in {Head(changes).position} |->
                                    Head(changes).newOwner]),
                   Tail(changes))

DispStart ==
    /\ \E pl \in PlayerLists, pp \in PropertyLists : activeGame(pl, pp)
    /\ UNCHANGED <<anim, lastChange>>

\* move events onto tracked position 3, onto position 5, which only an
\* ownership-change event can make a key, and onto position 7, never a key
DispMove ==
    /\ \E p \in Players, n \in {3, 5, 7}, o \in {0}, u \in Players :
          onPlayerMove(p, n, o, u)
    /\ UNCHANGED <<anim, lastChange>>

DispTurn == onPlayerTurn /\ UNCHANGED <<anim, lastChange>>

DispBalance == onPlayerBalance /\ UNCHANGED <<anim, lastChange>>

DispJailed == onPlayerJailed /\ UNCHANGED <<anim, lastChange>>

DispOwnerChanges ==
    /\ \E changes \in ChangeLists :
          /\ onPropertyOwnerChanges(changes)
          /\ lastChange' = Delivered(lastChange, changes)
    /\ UNCHANGED anim

DispHouse ==
    /\ \E houses \in HousePayloads : onHouseEvent(houses)
    /\ UNCHANGED <<anim, lastChange>>

DispGameEnd == onGameEnd /\ UNCHANGED <<anim, lastChange>>

NextDispatch ==
    \/ DispStart \/ DispMove \/ DispTurn \/ DispBalance \/ DispJailed
    \/ DispOwnerChanges \/ DispHouse \/ DispGameEnd

SpecDispatch == Init /\ [][NextDispatch]_vars

----------------------------------------------------------------------------
(* SpecSession, whole sessions: every event and the animation timer in any  *)
(* order, and the next session on the same page after a game has ended     *)

\* new positions of the move events: a cell ahead of the start cell and the
\* jail signal
SessionTargets == {2, JailSignal}

\* ownership-change payloads of one transfer, of position 5
SessionChanges == {<<t>> : t \in {u \in Transfers : u.position = 5}}

SessionStart ==
    /\ \E pl \in PlayerLists, pp \in PropertyLists : activeGame(pl, pp)
    /\ UNCHANGED <<anim, lastChange>>

SessionMove ==
    /\ \E p \in Players, n \in SessionTargets : onPlayerMove(p, n, 0, AnimUser)
    /\ UNCHANGED <<anim, lastChange>>

SessionTick == animate /\ UNCHANGED <<anim, lastChange>>

SessionTurn == onPlayerTurn /\ UNCHANGED <<anim, lastChange>>

SessionBalance == onPlayerBalance /\ UNCHANGED <<anim, lastChange>>

SessionJailed == onPlayerJailed /\ UNCHANGED <<anim, lastChange>>

SessionOwnerChanges ==
    /\ \E changes \in SessionChanges : onPropertyOwnerChanges(changes)
    /\ UNCHANGED <<anim, lastChange>>

SessionHouse ==
    /\ \E houses \in HousePayloads : onHouseEvent(houses)
    /\ UNCHANGED <<anim, lastChange>>

SessionGameEnd == onGameEnd /\ UNCHANGED <<anim, lastChange>>

NextSession ==
    \/ SessionStart \/ SessionMove \/ SessionTick \/ SessionTurn
    \/ SessionBalance \/ SessionJailed \/ SessionOwnerChanges
    \/ SessionHouse \/ SessionGameEnd

SpecSession == Init /\ [][NextSession]_vars

----------------------------------------------------------------------------
(* Properties *)

\* the positions of the session's property list
Tracked == UNION {Range(pp) : pp \in PropertyLists}

\* C1: a move event that finds the player on cell from and sets the target to
\* cell to stops the animation on to after exactly (to - from + 40) mod 40
\* ticks: none when from = to
C1_ReachedInDistanceTicks ==
    (anim.player # NoPlayer /\ anim.from \in Cells /\ anim.to \in Cells) =>
        LET d == (anim.to - anim.from + NumCells) % NumCells
            stopped == currentPlayer = NoPlayer /\ timer \notin armed
        IN  /\ anim.ticks <= d
            /\ anim.ticks = d <=>
                   (stopped /\ playerPositions[anim.player].current = anim.to)

C3_StoppedAfterTarget ==
    (currentPlayer = NoPlayer /\ last.kind \in {"animate", "animateThrows"}) =>
        /\ armed = {}
        /\ last.kind = "animate"

\* C5: every stored and every rendered position is a cell 0..39 or the jail
\* sentinel, and the sentinel is gone from every player's current position
\* by the next tick that renders a cell
C5_PositionsOnBoard ==
    /\ \A p \in DOMAIN playerPositions :
          playerPositions[p].current \in Cells \cup {JailSentinel}
    /\ last.kind = "animate" =>
          /\ \A r \in last.render : r[2] \in Cells \cup {JailSentinel}
          /\ last.render # {<<last.player, JailSentinel>>} =>
                \A p \in DOMAIN playerPositions :
                    playerPositions[p].current \in Cells

\* C9: at most one interval timer is armed, and it is the one whose handle
\* the program holds
C9_OneTimerArmed ==
    /\ Cardinality(armed) <= 1
    /\ armed \subseteq {timer}

\* C4: after a gameEnd event no handler is left registered and none is invoked
C4_AllDeregistered ==
    ended => /\ listeners = {}
             /\ last.kind \in EventNames => last.kind = "gameEnd"

\* C6: the keys of the ownership map never change after the session start
C6_KeysFixed ==
    [][last.kind # "load" => DOMAIN propertyOwners' = DOMAIN propertyOwners]_vars

\* C7: after an ownership-change event the map holds, for every transfer of
\* the payload on a tracked position (the last one, where two name the same
\* position), that transfer's new owner
C7_AllTransfersApplied ==
    last.kind = "propertyOwnerChanges" =>
        \A i \in DOMAIN last.changes :
            (/\ last.changes[i].position \in Tracked
             /\ \A j \in DOMAIN last.changes :
                   j > i => last.changes[j].position # last.changes[i].position)
            => propertyOwners[last.changes[i].position] = last.changes[i].newOwner

\* C8: the map's value for a tracked position is the new owner of the last
\* change delivered for that position
C8_LastChangeWins ==
    \A q \in DOMAIN lastChange \cap Tracked : propertyOwners[q] = lastChange[q]

\* C10: a move event surfaces the purchase affordance exactly when the mover
\* is the local user and the new position is a key of the ownership map with
\* value null
C10_BuyIffUnownedKey ==
    last.kind = "playerMove" =>
        /\ last.buy <=> /\ last.player = last.user
                        /\ last.new \in DOMAIN propertyOwners
                        /\ propertyOwners[last.new] = null
        /\ last.player # last.user => ~last.buy
        /\ last.new \notin DOMAIN propertyOwners => ~last.buy
        /\ (last.new \in DOMAIN propertyOwners
                /\ propertyOwners[last.new] \in Players) => ~last.buy

\* C10 witness: the local user has moved onto an unowned key and is offered it,
\* after an ownership change
C10_BuySurfaced ==
    /\ last.kind = "playerMove"
    /\ last.buy
    /\ last.player = last.user
    /\ propertyOwners[last.new] = null
    /\ \E q \in DOMAIN propertyOwners : propertyOwners[q] \in Players

\* C11: a move event with the jail-departure signal leaves the mover on cell 9
\* before any tick, so that the next tick of a move to a cell renders cell 10;
\* a move event without the signal leaves the current position as it was
C11_JailExitStartsAtNine ==
    [][/\ last'.kind = "playerMove" =>
              playerPositions'[last'.player].current =
                  IF last'.old = JailSignal THEN JailExitCell
                  ELSE playerPositions[last'.player].current
       /\ (last.kind = "playerMove" /\ last.old = JailSignal
              /\ last.new # JailSignal /\ last'.kind = "animate")
          => last'.render = {<<last.player, JailExitCell + 1>>}]_vars

\* C11 witness: the first tick after a jail-departure move has rendered cell 10
C11_EmergedFromJail ==
    /\ last.kind = "animate"
    /\ last.afterMove
    /\ last.render = {<<last.player, JailExitCell + 1>>}
    /\ playerPositions[last.player].current = JailExitCell + 1

\* C12: a tick for a target other than the jail sentinel takes the animating
\* player from c to (c + 1) mod 40 and changes no other position
C12_OneCellForward ==
    [][(last'.kind = "animate" /\ playerPositions[currentPlayer].end # JailSentinel)
        => playerPositions' =
               [playerPositions EXCEPT ![currentPlayer].current = (@ + 1) % NumCells]]_vars

\* C18: the tick callback never runs while the animating player is ''
C18_TickHasPlayer ==
    last.kind # "animateThrows"

\* the target a move event with new position n stores
TargetOf(n) == IF n = JailSignal THEN JailSentinel ELSE n

\* a move event for anim.player has found the animation of anim.over running
Interrupted == anim.player # NoPlayer /\ anim.over # NoPlayer

\* C13: a move event for the player whose animation is still running replaces
\* the stored target: the token comes to rest on the second event's target and
\* stays there
C13_SecondTargetWins ==
    (Interrupted /\ anim.over = anim.player) =>
        /\ playerPositions[anim.player].end = TargetOf(anim.new)
        /\ currentPlayer = NoPlayer =>
               playerPositions[anim.player].current = TargetOf(anim.new)

\* C13 witness: the token rests on the second target, which is not the first
C13_RestsOnSecondTarget ==
    /\ Interrupted
    /\ anim.over = anim.player
    /\ anim.overEnd # TargetOf(anim.new)
    /\ last.kind = "animate"
    /\ currentPlayer = NoPlayer
    /\ playerPositions[anim.player].current = TargetOf(anim.new)

\* C14: after a move event for a second player that found the first player's
\* animation running, no tick changes the second player's current position
\* as long as the first player's token has not reached its target
C14_SecondPlayerWaits ==
    [][(/\ Interrupted
        /\ anim.over # anim.player
        /\ last'.kind = "animate"
        /\ playerPositions[anim.over].current # anim.overEnd)
       => playerPositions'[anim.player].current
              = playerPositions[anim.player].current]_vars

\* C14 as amended: the move event for the second player takes the animation
\* over and leaves the first player's entry alone; every tick until the next
\* move event animates and renders the second player's token and leaves the
\* first player's position and target as they were
C14_SecondPlayerTakesOver ==
    [][/\ (last'.kind = "playerMove"
              /\ currentPlayer \notin {NoPlayer, last'.player})
          => /\ currentPlayer' = last'.player
             /\ playerPositions'[currentPlayer] = playerPositions[currentPlayer]
       /\ (Interrupted /\ anim.over # anim.player /\ last'.kind = "animate")
          => /\ last'.player = anim.player
             /\ last'.render =
                    {<<anim.player, playerPositions'[anim.player].current>>}
             /\ playerPositions'[anim.over] = playerPositions[anim.over]]_vars

\* C14 witness: a tick has moved the second player's token onto another cell
\* while the first player's token stands short of its target
C14_FirstPlayerStalled ==
    /\ Interrupted
    /\ anim.over # anim.player
    /\ last.kind = "animate"
    /\ last.player = anim.player
    /\ ~last.afterMove
    /\ playerPositions[anim.player].current \in Cells
    /\ playerPositions[anim.over].current # anim.overEnd
    /\ playerPositions[anim.over].end = anim.overEnd

\* C19: counted from the last move event the animation takes at most 40
\* ticks, and when it has cleared the animating player no timer is left armed
C19_AllTimersStopWithin40 ==
    anim.player # NoPlayer =>
        /\ anim.ticks <= NumCells
        /\ currentPlayer = NoPlayer => armed = {}


\* the events whose handlers keep no state of the board
StatelessEvents == {"playerTurn", "playerBalance", "playerJailed", "houseEvent"}

\* C15: a turn, balance, jailed or building event leaves every position and
\* target, the animating player, the timer and the ownership map unchanged;
\* a move event leaves the ownership map unchanged; the ownership map changes
\* only in the ownership-change handler and at a session start
C15_FrameOfEvents ==
    [][/\ last'.kind \in StatelessEvents
             => UNCHANGED <<playerPositions, currentPlayer, timer, armed,
                            propertyOwners>>
       /\ last'.kind = "playerMove" => propertyOwners' = propertyOwners
       /\ propertyOwners' # propertyOwners
             => last'.kind \in {"propertyOwnerChanges", "activeGame"}]_vars

\* C15 witness: such an event has been handled between two ticks of an
\* animation
C15_EventBetweenTicks ==
    /\ last.kind \in StatelessEvents
    /\ currentPlayer # NoPlayer
    /\ armed # {}
    /\ playerPositions[currentPlayer] = [current |-> 1, end |-> 2]
    /\ 5 \in DOMAIN propertyOwners

\* C16: right after every session start the ownership map has exactly the
\* session's property positions as keys, all unowned, there is one entry
\* {current: 0, end: 0} per player of the session's list and no other, no
\* timer is armed and no player is animating
C16_FreshSession ==
    last.kind = "activeGame" =>
        /\ DOMAIN propertyOwners = last.positions
        /\ \A q \in DOMAIN propertyOwners : propertyOwners[q] = null
        /\ DOMAIN playerPositions = last.players
        /\ \A p \in DOMAIN playerPositions :
               playerPositions[p] = [current |-> 0, end |-> 0]
        /\ armed = {}
        /\ currentPlayer = NoPlayer

\* C17: onGameEnd removes its listener and leaves the timer, the armed
\* intervals, the animating player and all positions unchanged; an interval
\* is cleared only by a tick that leaves current equal to the target, which
\* the jail tick does as well
C17_OnlyTicksStopTimer ==
    [][/\ last'.kind = "gameEnd"
             => /\ UNCHANGED <<timer, armed, currentPlayer, playerPositions>>
                /\ "gameEnd" \notin listeners'
       /\ ~(armed \subseteq armed')
             => /\ last'.kind = "animate"
                /\ playerPositions'[last'.player].current
                       = playerPositions[last'.player].end]_vars

\* C17 witness: a tick has run after the game-end event and the animation is
\* still in progress
C17_TicksAfterGameEnd ==
    /\ ended
    /\ last.kind = "animate"
    /\ currentPlayer # NoPlayer
    /\ armed # {}
    /\ playerPositions[currentPlayer].current # playerPositions[currentPlayer].end

====
